---- MODULE Spec2Model ----
(***************************************************************************)
(* State-machine model of the go-nfs handle cache                          *)
(* (helpers/cachinghandler.go, type CachingHandler) and of the RENAME      *)
(* procedure (nfs_onrename.go, func onRename) that retargets its handles.  *)
(*                                                                         *)
(* The hashicorp LRU cache is a sequence of (key, value) pairs ordered     *)
(* from the least to the most recently used, which is the order of its     *)
(* Keys() method.  A handle is a number: uuid.New() draws a fresh one, so  *)
(* the n-th minted handle is n.                                            *)
(*                                                                         *)
(* Spec runs the handler's calls one at a time; SpecConc runs them from    *)
(* concurrent workers, one forward-map call per step.  SpecRename serves   *)
(* RENAME requests under every combination of failing checks, and          *)
(* SpecVerifier runs the verifier cache of directory listings              *)
(* (VerifierFor, DataForVerifier).                                         *)
(***************************************************************************)
EXTENDS Integers, Sequences, FiniteSets, TLC

\* ------------------------------------------------------------ bounds ----
\* Largest capacity of a handler that serves the full workload.
MaxLimit == 2
\* Number of handles uuid.New() may mint in one behaviour.
MaxIssued == 3
\* Number of calls one concurrent worker makes.
MaxCalls == 2

\* The size of the verifier cache, and the longest directory listing.
MaxVerifiers == 2

MaxEntries == 2

\* ------------------------------------------------------------ values ----
\* Backend references (billy.Filesystem values), pairwise not DeepEqual.
Backends == {"fs1", "fs2"}

\* Handle bytes that uuid.FromBytes rejects (not 16 bytes long).
Malformed == -1

\* The zero UUID: what uuid.FromBytes leaves in id when it fails; well formed,
\* never minted by uuid.New().
NilUUID == 0

\* The paths callers hand to the cache.  "" is a legal component that
\* filepath.Join drops, so <<"a">> and <<"a", "">> join to the same string;
\* <<"a", "b">> is nested under <<"a">>, and <<>> is the export's root.
Paths == {<<>>, <<"a">>, <<"b">>, <<"a", "b">>, <<"a", "">>}

\* The paths of the deep workload: four paths with four different joins.
PlainPaths == {<<>>, <<"a">>, <<"b">>, <<"a", "b">>}

\* Handle values a caller may present: malformed bytes, a well-formed value
\* that was never issued, and every value uuid.New() has returned so far.
HandleInputs(next) == {Malformed, NilUUID} \cup (1..(next - 1))

\* What the callers of one behaviour do: the capacity the handler is built
\* with, the backends and paths they pass, how many handles they may have
\* minted, and whether they retarget handles (UpdateHandle,
\* UpdateHandlesByPath).  The full workload runs every method on two backends
\* with every capacity up to MaxLimit; the deep workload fills a cache one
\* entry larger from a single backend.
Workloads ==
    {[limit |-> l, fs |-> Backends, paths |-> Paths, issued |-> MaxIssued,
      retarget |-> TRUE] : l \in 1..MaxLimit}
    \cup {[limit |-> MaxLimit + 1, fs |-> {"fs1"}, paths |-> PlainPaths,
           issued |-> MaxIssued + 1, retarget |-> FALSE]}

\* ----------------------------------------------------- pure functions ----
\* billy's Join is filepath.Join: empty components are skipped and the rest
\* are joined with the separator.  No component here holds a separator or a
\* dot, so the string is determined by (and stands for) the sequence of the
\* non-empty components.  Every billy filesystem joins the same way.
Join(f, path) == SelectSeq(path, LAMBDA e : e /= "")

\* reflect.DeepEqual on two backend references.
DeepEqual(f, g) == f = g

hasPrefix(path, prefix) ==
    IF Len(prefix) > Len(path)
    THEN FALSE
    ELSE \A i \in 1..Len(prefix) : path[i] = prefix[i]

\* ---------------------------------------------- lru.Cache[K, V] calls ----
LruContains(c, k) == \E i \in 1..Len(c) : c[i].key = k

LruIndex(c, k) == CHOOSE i \in 1..Len(c) : c[i].key = k

\* Peek: the value, recency untouched.
LruPeek(c, k) == c[LruIndex(c, k)].val

LruWithout(c, k) == SelectSeq(c, LAMBDA e : e.key /= k)

\* Fault: a Get that reads like Peek and leaves the recency as it is.
LruGetUntouched(c, k) == c

\* Get: a hit moves the entry to the most recently used end.
LruGet(c, k) ==
    IF LruContains(c, k)
    THEN Append(LruWithout(c, k), c[LruIndex(c, k)])
    ELSE c

\* Fault: an Add that never evicts, so the cache grows past its size.
LruAddUnbounded(c, limit, k, v) ==
    [c |-> Append(LruWithout(c, k), [key |-> k, val |-> v]), evicted |-> FALSE]

\* Add: an existing key is overwritten and becomes the most recent; a new
\* key is pushed and, above the size, the oldest entry is removed.  The
\* boolean says whether an eviction happened.
LruAdd(c, limit, k, v) ==
    IF LruContains(c, k)
    THEN [c |-> Append(LruWithout(c, k), [key |-> k, val |-> v]), evicted |-> FALSE]
    ELSE LET pushed == Append(c, [key |-> k, val |-> v])
         IN IF Len(pushed) > limit
            THEN [c |-> Tail(pushed), evicted |-> TRUE]
            ELSE [c |-> pushed, evicted |-> FALSE]

LruRemoveKept(c, k) == c

LruRemove(c, k) == LruWithout(c, k)

\* Keys: oldest first.
LruKeys(c) == [i \in 1..Len(c) |-> c[i].key]

\* GetOldest: (key, value, ok), recency untouched.
LruGetOldest(c) ==
    IF Len(c) = 0
    THEN [ok |-> FALSE, key |-> NilUUID, val |-> [f |-> "nil", p |-> <<>>]]
    ELSE [ok |-> TRUE, key |-> c[1].key, val |-> c[1].val]

LruLen(c) == Len(c)

\* --------------------------------------------------- reverse index ----
\* reverseHandles is a Go map from the joined path to the list of handles
\* in insertion order: a function whose DOMAIN is the set of keys that hold a
\* handle.  The code leaves an emptied bucket in the map; every read of the
\* map (lines 106-108, 124-126, 188-189, 73, 175, 215) treats a missing key
\* and an empty bucket alike, so the model keeps no empty bucket.
RemoveAt(s, i) == SubSeq(s, 1, i - 1) \o SubSeq(s, i + 1, Len(s))

\* Fault: the bucket is left as it is.
evictReverseCacheKept(r, path, handle) == r

\* The first occurrence of handle is cut out of the bucket of path.
evictReverseCache(r, path, handle) ==
    IF path \notin DOMAIN r
    THEN r
    ELSE IF \E i \in 1..Len(r[path]) : r[path][i] = handle
         THEN LET i == CHOOSE j \in 1..Len(r[path]) :
                         /\ r[path][j] = handle
                         /\ \A m \in 1..(j - 1) : r[path][m] /= handle
                  uuids == RemoveAt(r[path], i)
              IN [k \in (IF Len(uuids) = 0 THEN DOMAIN r \ {path} ELSE DOMAIN r) |->
                     IF k = path THEN uuids ELSE r[k]]
         ELSE r

\* Fault: the bucket is overwritten with the one handle.
appendReverseAlone(r, path, id) ==
    [k \in DOMAIN r \cup {path} |-> IF k = path THEN <<id>> ELSE r[k]]

\* c.reverseHandles[path] = append(c.reverseHandles[path], id), the bucket
\* being created when the key is absent.
appendReverse(r, path, id) ==
    [k \in DOMAIN r \cup {path} |->
        IF k = path
        THEN (IF path \in DOMAIN r THEN r[path] ELSE <<>>) \o <<id>>
        ELSE r[k]]

RECURSIVE searchLoop(_, _, _, _)
searchLoop(c, uuids, f, i) ==
    IF i > Len(uuids)
    THEN [c |-> c, found |-> FALSE, id |-> NilUUID]
    ELSE IF LruContains(c, uuids[i])
         THEN IF DeepEqual(LruPeek(c, uuids[i]).f, f)
              THEN [c |-> LruGet(c, uuids[i]), found |-> TRUE, id |-> uuids[i]]
              ELSE searchLoop(LruGet(c, uuids[i]), uuids, f, i + 1)
         ELSE searchLoop(c, uuids, f, i + 1)

\* Fault: a search that finds nothing.
searchReverseCacheBlind(c, r, f, path) == [c |-> c, found |-> FALSE, id |-> NilUUID]

\* Every candidate of the bucket is read with Get, which refreshes it, until
\* one with a DeepEqual backend is found.
searchReverseCache(c, r, f, path) ==
    IF path \notin DOMAIN r
    THEN [c |-> c, found |-> FALSE, id |-> NilUUID]
    ELSE searchLoop(c, r[path], f, 1)

\* ------------------------------------------- CachingHandler methods ----
\* Each method is a function of the handler's fields (c = activeHandles,
\* r = reverseHandles, limit = the LRU's size) and its arguments, giving the
\* fields afterwards and what it returns.

\* id is the value uuid.New() returns if the method comes to mint.
ToHandle(c, r, limit, id, f, path) ==
    LET joinedPath == Join(f, path)
        s == searchReverseCache(c, r, f, joinedPath)
    IN IF s.found
       THEN [c |-> s.c, r |-> r, ret |-> s.id, minted |-> FALSE, evicted |-> NilUUID]
       ELSE LET oldest == LruGetOldest(s.c)
                a == LruAdd(s.c, limit, id, [f |-> f, p |-> path])
                did == a.evicted /\ oldest.ok
                r1 == IF did
                      THEN evictReverseCache(r, Join(oldest.val.f, oldest.val.p), oldest.key)
                      ELSE r
            IN [c |-> a.c, r |-> appendReverse(r1, joinedPath, id), ret |-> id,
                minted |-> TRUE, evicted |-> IF did THEN oldest.key ELSE NilUUID]

refreshLoopNone(c, keys, path, i) == c

RECURSIVE refreshLoop(_, _, _, _)
refreshLoop(c, keys, path, i) ==
    IF i > Len(keys)
    THEN c
    ELSE IF hasPrefix(path, LruPeek(c, keys[i]).p)
         THEN refreshLoop(LruGet(c, keys[i]), keys, path, i + 1)
         ELSE refreshLoop(c, keys, path, i + 1)

\* Fault: a hit returns the entry of the last candidate of the refresh loop
\* in place of the entry that was looked up.
FromHandleCandidate(c, fh) ==
    IF fh = Malformed
    THEN [c |-> c, err |-> "BadLength", f |-> "nil", p |-> <<>>]
    ELSE IF LruContains(c, fh)
         THEN LET c1 == LruGet(c, fh)
                  e == c1[1].val
              IN [c |-> refreshLoop(c1, LruKeys(c1), LruPeek(c, fh).p, 1),
                  err |-> "nil", f |-> e.f, p |-> e.p]
         ELSE [c |-> c, err |-> "Stale", f |-> "nil", p |-> <<>>]

FromHandle(c, fh) ==
    IF fh = Malformed
    THEN [c |-> c, err |-> "BadLength", f |-> "nil", p |-> <<>>]
    ELSE IF LruContains(c, fh)
         THEN LET e == LruPeek(c, fh)
                  c1 == LruGet(c, fh)
              IN [c |-> refreshLoop(c1, LruKeys(c1), e.p, 1), err |-> "nil",
                  f |-> e.f, p |-> e.p]
         ELSE [c |-> c, err |-> "Stale", f |-> "nil", p |-> <<>>]

\* Fault: the handle leaves the forward map only.
InvalidateHandleForwardOnly(c, r, handle) ==
    LET id == IF handle = Malformed THEN NilUUID ELSE handle
    IN [c |-> LruRemove(c, id), r |-> r]

\* uuid.FromBytes' error is dropped: malformed bytes leave the zero UUID.
InvalidateHandle(c, r, handle) ==
    LET id == IF handle = Malformed THEN NilUUID ELSE handle
    IN IF LruContains(c, id)
       THEN LET e == LruPeek(c, id)
            IN [c |-> LruRemove(LruGet(c, id), id),
                r |-> evictReverseCache(r, Join(e.f, e.p), id)]
       ELSE [c |-> LruRemove(c, id), r |-> r]

UpdateHandleKeepsBackend(c, r, limit, fs, handle, newPath) ==
    IF handle = Malformed
    THEN [c |-> c, r |-> r, err |-> "BadLength"]
    ELSE IF ~LruContains(c, handle)
         THEN [c |-> c, r |-> r, err |-> "Stale"]
         ELSE LET oldEntry == LruPeek(c, handle)
                  r1 == evictReverseCache(r, Join(oldEntry.f, oldEntry.p), handle)
                  a == LruAdd(LruGet(c, handle), limit, handle,
                              [f |-> oldEntry.f, p |-> newPath])
              IN [c |-> a.c, r |-> appendReverse(r1, Join(fs, newPath), handle),
                  err |-> "nil"]

UpdateHandle(c, r, limit, fs, handle, newPath) ==
    IF handle = Malformed
    THEN [c |-> c, r |-> r, err |-> "BadLength"]
    ELSE IF ~LruContains(c, handle)
         THEN [c |-> c, r |-> r, err |-> "Stale"]
         ELSE LET oldEntry == LruPeek(c, handle)
                  r1 == evictReverseCache(r, Join(oldEntry.f, oldEntry.p), handle)
                  a == LruAdd(LruGet(c, handle), limit, handle, [f |-> fs, p |-> newPath])
              IN [c |-> a.c, r |-> appendReverse(r1, Join(fs, newPath), handle),
                  err |-> "nil"]

\* One pass of the loop over the snapshot of the old bucket.
RECURSIVE updateLoop(_, _, _, _, _, _, _, _)
updateLoop(c, r, limit, uuidsCopy, oldPathJoined, newPathJoined, newPath, i) ==
    IF i > Len(uuidsCopy)
    THEN [c |-> c, r |-> r, updated |-> 0]
    ELSE LET id == uuidsCopy[i]
         IN IF ~LruContains(c, id)
            THEN updateLoop(c, r, limit, uuidsCopy, oldPathJoined, newPathJoined,
                            newPath, i + 1)
            ELSE LET oldEntry == LruPeek(c, id)
                     r1 == evictReverseCache(r, oldPathJoined, id)
                     a == LruAdd(LruGet(c, id), limit, id,
                                 [f |-> oldEntry.f, p |-> newPath])
                     rest == updateLoop(a.c, appendReverse(r1, newPathJoined, id),
                                        limit, uuidsCopy, oldPathJoined,
                                        newPathJoined, newPath, i + 1)
                 IN [c |-> rest.c, r |-> rest.r, updated |-> rest.updated + 1]

\* Fault: the migrated entries take the backend passed to the call.
UpdateHandlesByPathOverwriting(c, r, limit, fs, oldPath, newPath) ==
    LET oldPathJoined == Join(fs, oldPath)
    IN IF oldPathJoined \notin DOMAIN r \/ Len(r[oldPathJoined]) = 0
       THEN [c |-> c, r |-> r, updated |-> 0]
       ELSE LET u == updateLoop(c, r, limit, r[oldPathJoined], oldPathJoined,
                                Join(fs, newPath), newPath, 1)
                moved == {r[oldPathJoined][i] : i \in 1..Len(r[oldPathJoined])}
            IN [c |-> [i \in 1..Len(u.c) |->
                          IF u.c[i].key \in moved
                          THEN [key |-> u.c[i].key,
                                val |-> [f |-> fs, p |-> u.c[i].val.p]]
                          ELSE u.c[i]],
                r |-> u.r, updated |-> u.updated]

\* Fault: every handle at or under oldPath is moved to newPath.
UpdateHandlesByPathNested(c, r, limit, fs, oldPath, newPath) ==
    updateLoop(c, r, limit,
               SelectSeq(LruKeys(c), LAMBDA k : hasPrefix(LruPeek(c, k).p, oldPath)),
               Join(fs, oldPath), Join(fs, newPath), newPath, 1)

\* Fault: the rename is not propagated to the cache.
UpdateHandlesByPathSkipped(c, r, limit, fs, oldPath, newPath) ==
    [c |-> c, r |-> r, updated |-> 0]

UpdateHandlesByPath(c, r, limit, fs, oldPath, newPath) ==
    LET oldPathJoined == Join(fs, oldPath)
    IN IF oldPathJoined \notin DOMAIN r \/ Len(r[oldPathJoined]) = 0
       THEN [c |-> c, r |-> r, updated |-> 0]
       ELSE updateLoop(c, r, limit, r[oldPathJoined], oldPathJoined,
                       Join(fs, newPath), newPath, 1)

HandleLimit(limit) == limit

\* ------------------------------------------------------- RENAME ----
\* A component name longer than PathNameMax bytes.
LongName ==
    "nnnnnnnnnnnnnnnnnnnnnnnnnnnnnnnnnnnnnnnnnnnnnnnnnnnnnnnnnnnnnnnnnnnnnnnnnnnnnnnnnnnnnnnnnnnnnnnnnnnnnnnnnnnnnnnnnnnnnnnnnnnnnnnnnnnnnnnnnnnnnnnnnnnnnnnnnnnnnnnnnnnnnnnnnnnnnnnnnnnnnnnnnnnnnnnnnnnnnnnnnnnnnnnnnnnnnnnnnnnnnnnnnnnnnnnnnnnnnnnnnnnnnnnnnnnnnnnn"

\* nfs.PathNameMax, the longest component name the server accepts.
PathNameMax == 255

\* File names a RENAME request may carry: any byte string, the empty one too.
FileNames == {"a", "b", "", LongName}

\* What the request's backend and transport do during one RENAME:
\*   writable  billy.CapabilityCheck(fs, billy.WriteCapability)
\*   statFrom  fs.Stat of the source directory:      "dir" | "file" | "notexist" | "error"
\*   statTo    fs.Stat of the destination directory: the same
\*   rename    fs.Rename: "nil" | "notexist" | "permission" | "error"
\*   write     the first response write that fails:
\*             "none" | "status" | "wcc1" | "wcc2" | "send"
\*   postFrom, postTo  whether tryStat of either directory succeeds afterwards
AllOk ==
    [writable |-> TRUE, statFrom |-> "dir", statTo |-> "dir", rename |-> "nil",
     write |-> "none", postFrom |-> TRUE, postTo |-> TRUE]

statStatusBlind(st) == "ok"

\* The pre-stat of one directory: the status it ends the request with, or "ok".
statStatus(st) ==
    CASE st = "notexist" -> "NoEnt"
      [] st = "error" -> "IO"
      [] st = "file" -> "NotDir"
      [] OTHER -> "ok"

renameStatus(res) ==
    CASE res = "notexist" -> "NoEnt"
      [] res = "permission" -> "Access"
      [] res = "error" -> "IO"
      [] OTHER -> "ok"

\* An error return: the cache as the resolutions left it, nothing written.
renameFail(c, r, status, calls) ==
    [c |-> c, r |-> r, status |-> status, renameCalls |-> calls, updated |-> -1,
     resp |-> <<>>]

renameChecksReordered(from, to, req, env) ==
    IF ~env.writable
    THEN "ROFS"
    ELSE IF ~DeepEqual(from.f, to.f)
    THEN "NotSupp"
    ELSE IF statStatus(env.statFrom) /= "ok"
    THEN statStatus(env.statFrom)
    ELSE IF statStatus(env.statTo) /= "ok"
    THEN statStatus(env.statTo)
    ELSE IF Len(req.fromName) > PathNameMax \/ Len(req.toName) > PathNameMax
    THEN "NameTooLong"
    ELSE "ok"

\* Lines 36-72, the checks between the two resolutions and fs.Rename: the
\* status of the first one that fails, or "ok".  from and to are the two
\* resolutions.
renameChecks(from, to, req, env) ==
    IF ~DeepEqual(from.f, to.f)
    THEN "NotSupp"
    ELSE IF ~env.writable
    THEN "ROFS"
    ELSE IF Len(req.fromName) > PathNameMax \/ Len(req.toName) > PathNameMax
    THEN "NameTooLong"
    ELSE IF statStatus(env.statFrom) /= "ok"
    THEN statStatus(env.statFrom)
    ELSE statStatus(env.statTo)

\* tryStat, the post-operation stat of a directory: its attributes, or none
\* when the stat fails; WriteWcc then marks them unavailable in the block.
tryStat(found) == IF found THEN "post" ELSE "nopost"

renameReplyStrict(c, r, calls, updated, env) ==
    IF env.postFrom /\ env.postTo
    THEN [c |-> c, r |-> r,
          status |-> IF env.write = "none" THEN "OK" ELSE "ServerFault",
          renameCalls |-> calls, updated |-> updated,
          resp |-> IF env.write = "none" THEN <<"OK", "post", "post">> ELSE <<>>]
    ELSE renameFail(c, r, "IO", calls)

\* Lines 108-123: the response once the cache has been retargeted.  A write
\* that fails ends the request with ServerFault; tryStat's failure is passed
\* to WriteWcc as absent post-operation attributes.
renameReply(c, r, calls, updated, env) ==
    [c |-> c, r |-> r,
     status |-> IF env.write = "none" THEN "OK" ELSE "ServerFault",
     renameCalls |-> calls, updated |-> updated,
     resp |-> IF env.write = "none"
              THEN <<"OK", tryStat(env.postFrom), tryStat(env.postTo)>>
              ELSE <<>>]

renameCommitEager(c, r, limit, fs, oldPath, newPath, env) ==
    LET calls == <<[f |-> fs, fromLoc |-> Join(fs, oldPath),
                    toLoc |-> Join(fs, newPath)]>>
        u == UpdateHandlesByPath(c, r, limit, fs, oldPath, newPath)
    IN IF renameStatus(env.rename) /= "ok"
       THEN renameFail(u.c, u.r, renameStatus(env.rename), calls)
       ELSE renameReply(u.c, u.r, calls, u.updated, env)

\* Lines 74-123: fs.Rename, then the retarget, then the response.  userHandle
\* is the CachingHandler, so the type assertion of line 96 succeeds and
\* UpdateHandlesByPath is called.
renameCommit(c, r, limit, fs, oldPath, newPath, env) ==
    LET calls == <<[f |-> fs, fromLoc |-> Join(fs, oldPath),
                    toLoc |-> Join(fs, newPath)]>>
    IN IF renameStatus(env.rename) /= "ok"
       THEN renameFail(c, r, renameStatus(env.rename), calls)
       ELSE LET u == UpdateHandlesByPath(c, r, limit, fs, oldPath, newPath)
            IN renameReply(u.c, u.r, calls, u.updated, env)

\* req = [body, fromH, fromName, toH, toName]; body says which DirOpArg does
\* not decode ("ok" | "bad1" | "bad2").  renameCalls lists the fs.Rename calls
\* made; resp is the body written.
onRename(c, r, limit, req, env) ==
    IF req.body = "bad1"
    THEN renameFail(c, r, "Inval", <<>>)
    ELSE LET from == FromHandle(c, req.fromH)
         IN IF from.err /= "nil"
            THEN renameFail(from.c, r, "Stale", <<>>)
            ELSE IF req.body = "bad2"
            THEN renameFail(from.c, r, "Inval", <<>>)
            ELSE LET to == FromHandle(from.c, req.toH)
                 IN IF to.err /= "nil"
                    THEN renameFail(to.c, r, "Stale", <<>>)
                    ELSE IF renameChecks(from, to, req, env) /= "ok"
                    THEN renameFail(to.c, r, renameChecks(from, to, req, env), <<>>)
                    ELSE renameCommit(to.c, r, limit, from.f,
                                      Append(from.p, req.fromName),
                                      Append(to.p, req.toName), env)

\* ----------------------------------------------------- recency log ----
\* Which handles a call touches, in the order it touches them.  The log is
\* kept beside the cache, from the calls made, to say what "least recently
\* touched" means without reading the LRU's own order.
MoveToEnd(g, h) ==
    IF \E i \in 1..Len(g) : g[i] = h
    THEN Append(SelectSeq(g, LAMBDA x : x /= h), h)
    ELSE g

RECURSIVE TouchEach(_, _)
TouchEach(g, hs) ==
    IF Len(hs) = 0 THEN g ELSE TouchEach(MoveToEnd(g, Head(hs)), Tail(hs))

Drop(g, h) == SelectSeq(g, LAMBDA x : x /= h)

Bucket(r, joined) == IF joined \in DOMAIN r THEN r[joined] ELSE <<>>

\* The candidates the reverse search of ToHandle(f, path) reads: the bucket
\* up to and with the first handle whose backend is DeepEqual to f.
Examined(c, r, f, path) ==
    LET uuids == Bucket(r, Join(f, path))
        hits == {i \in 1..Len(uuids) :
                    LruContains(c, uuids[i]) /\ DeepEqual(LruPeek(c, uuids[i]).f, f)}
    IN IF hits = {}
       THEN uuids
       ELSE SubSeq(uuids, 1, CHOOSE i \in hits : \A j \in hits : i <= j)

\* A FromHandle hit touches the handle, then every cached entry whose path is
\* a prefix of its path, oldest first.
Refreshed(c, fh) ==
    IF fh /= Malformed /\ LruContains(c, fh)
    THEN LET p == LruPeek(c, fh).p
         IN <<fh>> \o SelectSeq(LruKeys(LruGet(c, fh)),
                                LAMBDA k : hasPrefix(p, LruPeek(c, k).p))
    ELSE <<>>

\* The handles a RENAME touches: the two resolutions, then the retargeted
\* bucket when the request came to retarget (updated >= 0).
RenameTouches(c, r, req, updated) ==
    IF req.body = "bad1" \/ ~(FromHandle(c, req.fromH).err = "nil")
    THEN <<>>
    ELSE LET from == FromHandle(c, req.fromH)
         IN IF req.body = "bad2" \/ ~(FromHandle(from.c, req.toH).err = "nil")
            THEN Refreshed(c, req.fromH)
            ELSE Refreshed(c, req.fromH) \o Refreshed(from.c, req.toH)
                 \o (IF updated >= 0
                     THEN Bucket(r, Join(from.f, Append(from.p, req.fromName)))
                     ELSE <<>>)

\* ------------------------------------------------------------ state ----
VARIABLES
    cacheLimit,      \* CachingHandler.cacheLimit, also the LRU's size
    activeHandles,   \* CachingHandler.activeHandles
    reverseHandles,  \* CachingHandler.reverseHandles
    nextId,          \* the next value uuid.New() returns
    load,            \* the workload of this behaviour (never changes)
    touched,         \* recency log: live handles, least recently touched
                     \* first, a touch being issuance, a reverse-search hit,
                     \* a FromHandle hit or refresh, or a retarget
    examined,        \* the same log, a touch being also the reverse search
                     \* reading a candidate whose backend does not match
    fill,            \* whether every call so far was a ToHandle that minted a
                     \* handle for a path no cached handle joins to
    last,            \* the call that has just returned: its arguments, what
                     \* it returned and the state as it was before it; Idle
                     \* once the caller has taken the result
    workers,         \* concurrent workers: where each stands in its call and
                     \* the locals of that call (all idle when calls are
                     \* made one at a time)
    activeVerifiers  \* CachingHandler.activeVerifiers

handler == <<cacheLimit, activeHandles, reverseHandles>>

vars == <<cacheLimit, activeHandles, reverseHandles, nextId, load, touched,
          examined, fill, last, workers, activeVerifiers>>

\* The zero value of entry, and a worker between two calls.
NoEntry == [f |-> "nil", p |-> <<>>]

Workers == {"w1", "w2"}

IdleWorker ==
    [pc |-> "idle", calls |-> 0, f |-> "nil", path |-> <<>>, newPath |-> <<>>,
     id |-> NilUUID, e |-> NoEntry, uuids |-> <<>>, i |-> 0,
     oldest |-> LruGetOldest(<<>>), evicted |-> FALSE]

Idle == [op |-> "idle"]

Pre ==
    [c |-> activeHandles, r |-> reverseHandles, next |-> nextId,
     touched |-> touched, examined |-> examined]

\* NewCachingHandlerWithVerifierLimit: empty caches, the limit kept.
Init ==
    /\ load \in Workloads
    /\ cacheLimit = load.limit
    /\ activeHandles = <<>>
    /\ reverseHandles = <<>>
    /\ nextId = 1
    /\ touched = <<>>
    /\ examined = <<>>
    /\ fill = TRUE
    /\ last = Idle
    /\ workers = [w \in Workers |-> IdleWorker]
    /\ activeVerifiers = <<>>

DoToHandle ==
    /\ last = Idle
    /\ \E f \in load.fs, path \in load.paths :
        LET res == ToHandle(activeHandles, reverseHandles, cacheLimit, nextId, f, path)
            seen == TouchEach(examined, Examined(activeHandles, reverseHandles, f, path))
        IN /\ res.minted => nextId <= load.issued
           /\ activeHandles' = res.c
           /\ reverseHandles' = res.r
           /\ nextId' = IF res.minted THEN nextId + 1 ELSE nextId
           /\ touched' = IF res.minted
                         THEN Append(Drop(touched, res.evicted), res.ret)
                         ELSE MoveToEnd(touched, res.ret)
           /\ examined' = IF res.minted
                          THEN Append(Drop(seen, res.evicted), res.ret)
                          ELSE seen
           /\ fill' = (fill /\ res.minted /\ Join(f, path) \notin DOMAIN reverseHandles)
           /\ last' = [op |-> "ToHandle", f |-> f, path |-> path, ret |-> res.ret,
                       minted |-> res.minted, evicted |-> res.evicted, pre |-> Pre]
           /\ UNCHANGED <<cacheLimit, load, workers, activeVerifiers>>

DoFromHandle ==
    /\ last = Idle
    /\ \E fh \in HandleInputs(nextId) :
        LET res == FromHandle(activeHandles, fh)
        IN /\ activeHandles' = res.c
           /\ touched' = TouchEach(touched, Refreshed(activeHandles, fh))
           /\ examined' = TouchEach(examined, Refreshed(activeHandles, fh))
           /\ fill' = FALSE
           /\ last' = [op |-> "FromHandle", h |-> fh, err |-> res.err,
                       f |-> res.f, p |-> res.p, pre |-> Pre]
           /\ UNCHANGED <<cacheLimit, reverseHandles, nextId, load, workers, activeVerifiers>>

\* The fs argument is never read.
DoInvalidateHandle ==
    /\ last = Idle
    /\ \E handle \in HandleInputs(nextId) :
        LET res == InvalidateHandle(activeHandles, reverseHandles, handle)
        IN /\ activeHandles' = res.c
           /\ reverseHandles' = res.r
           /\ touched' = Drop(touched, handle)
           /\ examined' = Drop(examined, handle)
           /\ fill' = FALSE
           /\ last' = [op |-> "InvalidateHandle", h |-> handle, err |-> "nil",
                       pre |-> Pre]
           /\ UNCHANGED <<cacheLimit, nextId, load, workers, activeVerifiers>>

\* A call on a handle that is not live returns before fs and newPath are
\* read: one such call per handle stands for all of them.
DoUpdateHandle ==
    /\ last = Idle
    /\ load.retarget
    /\ \E handle \in HandleInputs(nextId) :
        \E fs \in (IF LruContains(activeHandles, handle) THEN load.fs ELSE {"fs1"}),
           newPath \in (IF LruContains(activeHandles, handle) THEN load.paths ELSE {<<>>}) :
        LET res == UpdateHandle(activeHandles, reverseHandles, cacheLimit, fs,
                                handle, newPath)
        IN /\ activeHandles' = res.c
           /\ reverseHandles' = res.r
           /\ touched' = MoveToEnd(touched, handle)
           /\ examined' = MoveToEnd(examined, handle)
           /\ fill' = FALSE
           /\ last' = [op |-> "UpdateHandle", f |-> fs, h |-> handle,
                       newPath |-> newPath, err |-> res.err, pre |-> Pre]
           /\ UNCHANGED <<cacheLimit, nextId, load, workers, activeVerifiers>>

\* Whether the bucket of oldPath holds a handle.  When it holds none the call
\* returns 0 before newPath is read: one such call per oldPath stands for all.
Migrates(r, oldPath) == Len(Bucket(r, Join("fs1", oldPath))) > 0

DoUpdateHandlesByPath ==
    /\ last = Idle
    /\ load.retarget
    /\ \E oldPath \in load.paths :
        \E fs \in (IF Migrates(reverseHandles, oldPath) THEN load.fs ELSE {"fs1"}),
           newPath \in (IF Migrates(reverseHandles, oldPath) THEN load.paths ELSE {<<>>}) :
        LET res == UpdateHandlesByPath(activeHandles, reverseHandles, cacheLimit,
                                       fs, oldPath, newPath)
            moved == Bucket(reverseHandles, Join(fs, oldPath))
        IN /\ activeHandles' = res.c
           /\ reverseHandles' = res.r
           /\ touched' = TouchEach(touched, moved)
           /\ examined' = TouchEach(examined, moved)
           /\ fill' = FALSE
           /\ last' = [op |-> "UpdateHandlesByPath", f |-> fs, oldPath |-> oldPath,
                       newPath |-> newPath, ret |-> res.updated, pre |-> Pre]
           /\ UNCHANGED <<cacheLimit, nextId, load, workers, activeVerifiers>>

\* The RENAME requests and backend behaviours tried in a state.  A request
\* that fails before a field is read carries that field's default; every
\* check is failed once on its own, and a request that reaches fs.Rename
\* with success is tried with every file name whose destination path is one
\* of the workload's paths, and with every failure of the response.
Req(fromH, fromName, toH, toName, body) ==
    [body |-> body, fromH |-> fromH, fromName |-> fromName, toH |-> toH,
     toName |-> toName]

FaultEnvs ==
    {[AllOk EXCEPT !.writable = FALSE]}
    \cup {[AllOk EXCEPT !.statFrom = st] : st \in {"file", "notexist", "error"}}
    \cup {[AllOk EXCEPT !.statTo = st] : st \in {"file", "notexist", "error"}}
    \cup {[AllOk EXCEPT !.rename = res] : res \in {"notexist", "permission", "error"}}

SuccessEnvs ==
    {AllOk, [AllOk EXCEPT !.postFrom = FALSE], [AllOk EXCEPT !.postTo = FALSE]}
    \cup {[AllOk EXCEPT !.write = w] : w \in {"status", "wcc1", "wcc2", "send"}}

Resolves(c, h) == FromHandle(c, h).err = "nil"

RenameCases(c, next, paths) ==
    LET H == HandleInputs(next)
        live == {h \in H : Resolves(c, h)}
    IN {<<Req(NilUUID, "a", NilUUID, "a", "bad1"), AllOk>>}
       \cup {<<Req(h, "a", NilUUID, "a", "ok"), AllOk>> : h \in H \ live}
       \cup {<<Req(h, "a", NilUUID, "a", "bad2"), AllOk>> : h \in live}
       \cup {<<Req(h, "a", g, "a", "ok"), AllOk>> : h \in live, g \in H \ live}
       \cup UNION {
              IF ~DeepEqual(LruPeek(c, h).f, LruPeek(c, g).f)
              THEN {<<Req(h, "a", g, "a", "ok"), AllOk>>}
              ELSE {<<Req(h, "a", g, "a", "ok"), env>> : env \in FaultEnvs}
                   \cup {<<Req(h, LongName, g, "a", "ok"), AllOk>>,
                         <<Req(h, "a", g, LongName, "ok"), AllOk>>}
                   \cup {<<Req(h, n, g, m, "ok"), env>> :
                            n \in FileNames \ {LongName},
                            m \in {x \in FileNames \ {LongName} :
                                      Append(LruPeek(c, g).p, x) \in paths},
                            env \in {AllOk, [AllOk EXCEPT !.write = "send"]}}
                   \cup {<<Req(h, "a", g, m, "ok"), env>> :
                            m \in {x \in {"b"} : Append(LruPeek(c, g).p, x) \in paths},
                            env \in SuccessEnvs}
              : h \in live, g \in live}

\* One RENAME request served to its end.
Rename(req, env) ==
    LET res == onRename(activeHandles, reverseHandles, cacheLimit, req, env)
        hs == RenameTouches(activeHandles, reverseHandles, req, res.updated)
    IN /\ activeHandles' = res.c
       /\ reverseHandles' = res.r
       /\ touched' = TouchEach(touched, hs)
       /\ examined' = TouchEach(examined, hs)
       /\ fill' = FALSE
       /\ last' = [op |-> "Rename", req |-> req, env |-> env,
                   status |-> res.status, renameCalls |-> res.renameCalls,
                   updated |-> res.updated, resp |-> res.resp, pre |-> Pre]
       /\ UNCHANGED <<cacheLimit, nextId, load, workers, activeVerifiers>>

DoRename ==
    /\ last = Idle
    /\ load.retarget
    /\ \E case \in RenameCases(activeHandles, nextId, load.paths) :
          Rename(case[1], case[2])

DoHandleLimit ==
    /\ last = Idle
    /\ last' = [op |-> "HandleLimit", ret |-> HandleLimit(cacheLimit), pre |-> Pre]
    /\ fill' = FALSE
    /\ UNCHANGED <<cacheLimit, activeHandles, reverseHandles, nextId, load,
                   touched, examined, workers, activeVerifiers>>

\* The caller takes the result; the handler waits for the next call.
Return ==
    /\ last /= Idle
    /\ last' = Idle
    /\ UNCHANGED <<cacheLimit, activeHandles, reverseHandles, nextId, load,
                   touched, examined, fill, workers, activeVerifiers>>

Next ==
    \/ DoToHandle
    \/ DoFromHandle
    \/ DoInvalidateHandle
    \/ DoUpdateHandle
    \/ DoUpdateHandlesByPath
    \/ DoRename
    \/ DoHandleLimit
    \/ Return

Spec == Init /\ [][Next]_vars

\* ------------------------------------------------ concurrent workers ----
\* The same handler served by Workers at once, as the server's connections
\* do.  CachingHandler has no lock: a step of a worker is one call of the
\* forward map (each atomic in the lru package), or the statements on the
\* reverse index that stand between two such calls.  The reverse index is a
\* plain Go map; its unsynchronised statements are taken here as if each
\* group ran undisturbed, the mildest thing the race can do.
ConcLoad ==
    [limit |-> MaxLimit, fs |-> {"fs1"}, paths |-> {<<"a">>, <<"b">>},
     issued |-> MaxIssued, retarget |-> TRUE]

InitConc ==
    /\ load = ConcLoad
    /\ cacheLimit = load.limit
    /\ activeHandles = <<>>
    /\ reverseHandles = <<>>
    /\ nextId = 1
    /\ touched = <<>>
    /\ examined = <<>>
    /\ fill = TRUE
    /\ last = Idle
    /\ workers = [w \in Workers |-> IdleWorker]
    /\ activeVerifiers = <<>>

sequential == <<cacheLimit, load, touched, examined, fill, last, activeVerifiers>>

MayCall(w) == workers[w].pc = "idle" /\ workers[w].calls < MaxCalls

\* The worker's call returns: its locals are dropped.
Returned(w) == [IdleWorker EXCEPT !.calls = workers[w].calls]

Called(w) == [IdleWorker EXCEPT !.calls = workers[w].calls + 1]

\* The loop over uuids moves to the next handle, or the call returns.
Advance(w, pc) ==
    IF workers[w].i < Len(workers[w].uuids)
    THEN [workers[w] EXCEPT !.pc = pc, !.i = @ + 1]
    ELSE Returned(w)

\* Handle values a caller may present: as HandleInputs, less the handles
\* minted by a ToHandle that has not returned yet, which no caller has seen.
Presented ==
    HandleInputs(nextId)
        \ {workers[w].id : w \in {v \in Workers : workers[v].pc \in {"add", "reindex"}}}

\* Handles that workers inside ToHandle may still mint.
Minting == Cardinality({w \in Workers : workers[w].pc \in {"search", "mint"}})

\* ToHandle, lines 56-58 and 106-110: the bucket of the joined path is read.
ToHandleSearch(w) ==
    /\ MayCall(w)
    /\ nextId + Minting <= load.issued
    /\ \E f \in load.fs, path \in load.paths :
        LET uuids == Bucket(reverseHandles, Join(f, path))
        IN workers' = [workers EXCEPT ![w] =
                          [Called(w) EXCEPT !.pc = IF Len(uuids) = 0
                                                   THEN "mint" ELSE "search",
                                            !.f = f, !.path = path,
                                            !.uuids = uuids, !.i = 1]]
    /\ UNCHANGED <<activeHandles, reverseHandles, nextId, sequential>>

\* Lines 112-118: one candidate is read with Get.
ToHandleSearchGet(w) ==
    /\ workers[w].pc = "search"
    /\ LET me == workers[w]
           id == me.uuids[me.i]
           hit == /\ LruContains(activeHandles, id)
                  /\ DeepEqual(LruPeek(activeHandles, id).f, me.f)
       IN /\ activeHandles' = LruGet(activeHandles, id)
          /\ workers' = [workers EXCEPT ![w] =
                            IF hit
                            THEN Returned(w)
                            ELSE IF me.i < Len(me.uuids)
                                 THEN [me EXCEPT !.i = @ + 1]
                                 ELSE [me EXCEPT !.pc = "mint"]]
    /\ UNCHANGED <<reverseHandles, nextId, sequential>>

\* Lines 62-67: uuid.New(), then GetOldest.
ToHandleGetOldest(w) ==
    /\ workers[w].pc = "mint"
    /\ nextId' = nextId + 1
    /\ workers' = [workers EXCEPT ![w] =
                      [@ EXCEPT !.pc = "add", !.id = nextId,
                                !.oldest = LruGetOldest(activeHandles)]]
    /\ UNCHANGED <<activeHandles, reverseHandles, sequential>>

\* Line 68: Add.
ToHandleAdd(w) ==
    /\ workers[w].pc = "add"
    /\ LET me == workers[w]
           a == LruAdd(activeHandles, cacheLimit, me.id, [f |-> me.f, p |-> me.path])
       IN /\ activeHandles' = a.c
          /\ workers' = [workers EXCEPT ![w] =
                            [me EXCEPT !.pc = "reindex",
                                       !.evicted = a.evicted /\ me.oldest.ok]]
    /\ UNCHANGED <<reverseHandles, nextId, sequential>>

\* Lines 69-76: the handle GetOldest named leaves its bucket, the new handle
\* enters its own.
ToHandleReindex(w) ==
    /\ workers[w].pc = "reindex"
    /\ LET me == workers[w]
           r1 == IF me.evicted
                 THEN evictReverseCache(reverseHandles,
                                        Join(me.oldest.val.f, me.oldest.val.p),
                                        me.oldest.key)
                 ELSE reverseHandles
       IN reverseHandles' = appendReverse(r1, Join(me.f, me.path), me.id)
    /\ workers' = [workers EXCEPT ![w] = Returned(w)]
    /\ UNCHANGED <<activeHandles, nextId, sequential>>

\* FromHandle, lines 84-89: Get; a miss returns Stale.
FromHandleGet(w) ==
    /\ MayCall(w)
    /\ \E fh \in Presented :
        IF fh /= Malformed /\ LruContains(activeHandles, fh)
        THEN /\ activeHandles' = LruGet(activeHandles, fh)
             /\ workers' = [workers EXCEPT ![w] =
                               [Called(w) EXCEPT !.pc = "keys", !.id = fh,
                                                 !.e = LruPeek(activeHandles, fh)]]
        ELSE /\ activeHandles' = activeHandles
             /\ workers' = [workers EXCEPT ![w] = Called(w)]
    /\ UNCHANGED <<reverseHandles, nextId, sequential>>

\* Line 90: Keys.
FromHandleKeys(w) ==
    /\ workers[w].pc = "keys"
    /\ workers' = [workers EXCEPT ![w] =
                      IF LruLen(activeHandles) = 0
                      THEN Returned(w)
                      ELSE [@ EXCEPT !.pc = "peek", !.uuids = LruKeys(activeHandles),
                                     !.i = 1]]
    /\ UNCHANGED <<activeHandles, reverseHandles, nextId, sequential>>

\* Lines 91-92: Peek; a key removed meanwhile gives the zero entry, whose
\* empty path is a prefix of every path.
FromHandlePeek(w) ==
    /\ workers[w].pc = "peek"
    /\ LET me == workers[w]
           k == me.uuids[me.i]
           candidate == IF LruContains(activeHandles, k)
                        THEN LruPeek(activeHandles, k) ELSE NoEntry
       IN workers' = [workers EXCEPT ![w] =
                         IF hasPrefix(me.e.p, candidate.p)
                         THEN [me EXCEPT !.pc = "touch"]
                         ELSE Advance(w, "peek")]
    /\ UNCHANGED <<activeHandles, reverseHandles, nextId, sequential>>

\* Line 93: Get.
FromHandleTouch(w) ==
    /\ workers[w].pc = "touch"
    /\ activeHandles' = LruGet(activeHandles, workers[w].uuids[workers[w].i])
    /\ workers' = [workers EXCEPT ![w] = Advance(w, "peek")]
    /\ UNCHANGED <<reverseHandles, nextId, sequential>>

\* InvalidateHandle, lines 140-142: Get.
InvalidateGet(w) ==
    /\ MayCall(w)
    /\ \E handle \in Presented :
        LET id == IF handle = Malformed THEN NilUUID ELSE handle
        IN /\ activeHandles' = LruGet(activeHandles, id)
           /\ workers' = [workers EXCEPT ![w] =
                             IF LruContains(activeHandles, id)
                             THEN [Called(w) EXCEPT !.pc = "unlist", !.id = id,
                                                    !.e = LruPeek(activeHandles, id)]
                             ELSE [Called(w) EXCEPT !.pc = "remove", !.id = id]]
    /\ UNCHANGED <<reverseHandles, nextId, sequential>>

\* Lines 143-144.
InvalidateEvict(w) ==
    /\ workers[w].pc = "unlist"
    /\ reverseHandles' = evictReverseCache(reverseHandles,
                                           Join(workers[w].e.f, workers[w].e.p),
                                           workers[w].id)
    /\ workers' = [workers EXCEPT ![w] = [@ EXCEPT !.pc = "remove"]]
    /\ UNCHANGED <<activeHandles, nextId, sequential>>

\* Line 146: Remove.
InvalidateRemove(w) ==
    /\ workers[w].pc = "remove"
    /\ activeHandles' = LruRemove(activeHandles, workers[w].id)
    /\ workers' = [workers EXCEPT ![w] = Returned(w)]
    /\ UNCHANGED <<reverseHandles, nextId, sequential>>

\* UpdateHandlesByPath, lines 187-200: the old bucket is read and copied.
UpdateRead(w) ==
    /\ MayCall(w)
    /\ \E fs \in load.fs, oldPath \in load.paths, newPath \in load.paths :
        LET uuids == Bucket(reverseHandles, Join(fs, oldPath))
        IN workers' = [workers EXCEPT ![w] =
                          IF Len(uuids) = 0
                          THEN Called(w)
                          ELSE [Called(w) EXCEPT !.pc = "get", !.f = fs,
                                                 !.path = oldPath,
                                                 !.newPath = newPath,
                                                 !.uuids = uuids, !.i = 1]]
    /\ UNCHANGED <<activeHandles, reverseHandles, nextId, sequential>>

\* Lines 203-206: Get; a handle that is gone is skipped.
UpdateGet(w) ==
    /\ workers[w].pc = "get"
    /\ LET me == workers[w]
           id == me.uuids[me.i]
       IN /\ activeHandles' = LruGet(activeHandles, id)
          /\ workers' = [workers EXCEPT ![w] =
                            IF LruContains(activeHandles, id)
                            THEN [me EXCEPT !.pc = "evict", !.id = id,
                                            !.e = LruPeek(activeHandles, id)]
                            ELSE Advance(w, "get")]
    /\ UNCHANGED <<reverseHandles, nextId, sequential>>

\* Line 209.
UpdateEvict(w) ==
    /\ workers[w].pc = "evict"
    /\ reverseHandles' = evictReverseCache(reverseHandles,
                                           Join(workers[w].f, workers[w].path),
                                           workers[w].id)
    /\ workers' = [workers EXCEPT ![w] = [@ EXCEPT !.pc = "put"]]
    /\ UNCHANGED <<activeHandles, nextId, sequential>>

\* Line 212: Add, whose result is dropped.
UpdateAdd(w) ==
    /\ workers[w].pc = "put"
    /\ activeHandles' = LruAdd(activeHandles, cacheLimit, workers[w].id,
                               [f |-> workers[w].e.f, p |-> workers[w].newPath]).c
    /\ workers' = [workers EXCEPT ![w] = [@ EXCEPT !.pc = "index"]]
    /\ UNCHANGED <<reverseHandles, nextId, sequential>>

\* Lines 215-219.
UpdateIndex(w) ==
    /\ workers[w].pc = "index"
    /\ reverseHandles' = appendReverse(reverseHandles,
                                       Join(workers[w].f, workers[w].newPath),
                                       workers[w].id)
    /\ workers' = [workers EXCEPT ![w] = Advance(w, "get")]
    /\ UNCHANGED <<activeHandles, nextId, sequential>>

NextConc ==
    \/ \E w \in Workers : ToHandleSearch(w)
    \/ \E w \in Workers : ToHandleSearchGet(w)
    \/ \E w \in Workers : ToHandleGetOldest(w)
    \/ \E w \in Workers : ToHandleAdd(w)
    \/ \E w \in Workers : ToHandleReindex(w)
    \/ \E w \in Workers : FromHandleGet(w)
    \/ \E w \in Workers : FromHandleKeys(w)
    \/ \E w \in Workers : FromHandlePeek(w)
    \/ \E w \in Workers : FromHandleTouch(w)
    \/ \E w \in Workers : InvalidateGet(w)
    \/ \E w \in Workers : InvalidateEvict(w)
    \/ \E w \in Workers : InvalidateRemove(w)
    \/ \E w \in Workers : UpdateRead(w)
    \/ \E w \in Workers : UpdateGet(w)
    \/ \E w \in Workers : UpdateEvict(w)
    \/ \E w \in Workers : UpdateAdd(w)
    \/ \E w \in Workers : UpdateIndex(w)

SpecConc == InitConc /\ [][NextConc]_vars

\* ---------------------------------------------------- RENAME requests ----
\* The RENAME procedure on a small cache, with every combination of failing
\* checks: any two handles, file names short or too long, and a backend that
\* may be read-only, miss or mistake either directory and fail the rename,
\* all at once; or a backend that does it all and a response that fails.
RenameLoad ==
    [limit |-> MaxLimit, fs |-> Backends, paths |-> {<<>>, <<"a">>},
     issued |-> MaxLimit, retarget |-> TRUE]

InitRename ==
    /\ load = RenameLoad
    /\ cacheLimit = load.limit
    /\ activeHandles = <<>>
    /\ reverseHandles = <<>>
    /\ nextId = 1
    /\ touched = <<>>
    /\ examined = <<>>
    /\ fill = TRUE
    /\ last = Idle
    /\ workers = [w \in Workers |-> IdleWorker]
    /\ activeVerifiers = <<>>

StatResults == {"dir", "file", "notexist", "error"}

RenameResults == {"nil", "notexist", "permission", "error"}

AllEnvs ==
    {[AllOk EXCEPT !.writable = wr, !.statFrom = sf, !.statTo = st, !.rename = rn] :
        wr \in BOOLEAN, sf \in StatResults, st \in StatResults, rn \in RenameResults}
    \cup {[AllOk EXCEPT !.write = w, !.postFrom = p, !.postTo = q] :
             w \in {"none", "status", "wcc1", "wcc2", "send"},
             p \in BOOLEAN, q \in BOOLEAN}

AllRequests(next) ==
    LET H == {NilUUID} \cup (1..(next - 1))
    IN {Req(h, n[1], g, n[2], "ok") :
           h \in H, g \in H,
           n \in {<<"a", "b">>, <<LongName, "b">>, <<"a", LongName>>}}
       \cup {Req(h, "a", g, "b", b) : h \in H, g \in H, b \in {"bad1", "bad2"}}

DoRequest ==
    /\ last = Idle
    /\ \E req \in AllRequests(nextId), env \in AllEnvs : Rename(req, env)

NextRename ==
    \/ DoToHandle
    \/ DoRequest
    \/ Return

SpecRename == InitRename /\ [][NextRename]_vars

\* ----------------------------------------------------- verifier cache ----
\* Directory paths and entry names are byte strings; a listing is the
\* sequence of the names of its entries (fs.FileInfo.Name()), without
\* repetition, in the order of the listing.
DirPaths == {"d", "da"}

Names == {"a", "aa", "b"}

Listings ==
    {l \in UNION {[1..n -> Names] : n \in 0..MaxEntries} :
        \A i, j \in 1..Len(l) : l[i] = l[j] => i = j}

\* The loop of lines 255-257: every name written to the hash, one after the
\* other, nothing in between.
RECURSIVE NamesWritten(_, _)
NamesWritten(contents, i) ==
    IF i > Len(contents)
    THEN ""
    ELSE contents[i] \o NamesWritten(contents, i + 1)

\* hashPathAndContents: the digest of the bytes written, which are the length
\* of the path in 8 bytes, the path and the names.  The digest is taken as
\* collision-free, so it stands for the bytes it was fed: the length, and
\* the string that follows it.
hashPathAndContents(path, contents) ==
    <<Len(path), path \o NamesWritten(contents, 1)>>

\* VerifierFor: the id, and the cache with verifier{path, contents} added
\* under it.
VerifierFor(v, limit, path, contents) ==
    LET id == hashPathAndContents(path, contents)
    IN [v |-> LruAdd(v, limit, id, [path |-> path, contents |-> contents]).c,
        ret |-> id]

\* DataForVerifier: the contents resident under id, found or not; the path
\* argument is not read.
DataForVerifier(v, path, id) ==
    IF LruContains(v, id)
    THEN [v |-> LruGet(v, id), found |-> TRUE, ret |-> LruPeek(v, id).contents]
    ELSE [v |-> v, found |-> FALSE, ret |-> <<>>]

\* The ids a client may present: every id VerifierFor can issue here.
VerifierIds == {hashPathAndContents(p, l) : p \in DirPaths, l \in Listings}

VerifierLoad ==
    [limit |-> MaxLimit, verifiers |-> MaxVerifiers, fs |-> Backends,
     paths |-> PlainPaths, issued |-> 0, retarget |-> FALSE]

\* NewCachingHandlerWithVerifierLimit(h, MaxLimit, MaxVerifiers).
InitVerifier ==
    /\ load = VerifierLoad
    /\ cacheLimit = load.limit
    /\ activeHandles = <<>>
    /\ reverseHandles = <<>>
    /\ nextId = 1
    /\ touched = <<>>
    /\ examined = <<>>
    /\ fill = TRUE
    /\ last = Idle
    /\ workers = [w \in Workers |-> IdleWorker]
    /\ activeVerifiers = <<>>

DoVerifierFor ==
    /\ last = Idle
    /\ \E path \in DirPaths, contents \in Listings :
        LET res == VerifierFor(activeVerifiers, load.verifiers, path, contents)
        IN /\ activeVerifiers' = res.v
           /\ last' = [op |-> "VerifierFor", path |-> path, contents |-> contents,
                       ret |-> res.ret, pre |-> activeVerifiers]
    /\ UNCHANGED <<cacheLimit, activeHandles, reverseHandles, nextId, load,
                   touched, examined, fill, workers>>

DoDataForVerifier ==
    /\ last = Idle
    /\ \E path \in DirPaths, id \in VerifierIds :
        LET res == DataForVerifier(activeVerifiers, path, id)
        IN /\ activeVerifiers' = res.v
           /\ last' = [op |-> "DataForVerifier", path |-> path, id |-> id,
                       found |-> res.found, ret |-> res.ret,
                       pre |-> activeVerifiers]
    /\ UNCHANGED <<cacheLimit, activeHandles, reverseHandles, nextId, load,
                   touched, examined, fill, workers>>

NextVerifier ==
    \/ DoVerifierFor
    \/ DoDataForVerifier
    \/ Return

SpecVerifier == InitVerifier /\ [][NextVerifier]_vars

\* ------------------------------------------------------- properties ----
\* The handles of the forward map, the handles listed in the reverse index.
Live(c) == {c[i].key : i \in 1..Len(c)}

Listed(r) == UNION {{r[k][i] : i \in 1..Len(r[k])} : k \in DOMAIN r}

Occurrences(r, k, h) == Cardinality({i \in 1..Len(r[k]) : r[k][i] = h})

\* The reverse-index key of a live handle: the joined path of its entry.
JoinedOf(c, h) == Join(LruPeek(c, h).f, LruPeek(c, h).p)

\* The live handles whose stored path joins to the same string as path.
StoredAt(c, f, path) == {h \in Live(c) : JoinedOf(c, h) = Join(f, path)}

\* Whether h resolves to the entry [f, p] with the cache as it is.
ResolvesTo(c, h, f, p) ==
    LET res == FromHandle(c, h)
    IN res.err = "nil" /\ res.f = f /\ res.p = p

\* C1: after any sequence of ToHandle, FromHandle, InvalidateHandle,
\* UpdateHandle and UpdateHandlesByPath calls run one at a time, every handle
\* of the forward map has exactly one entry, is listed exactly once in the
\* bucket keyed by the joined path of that entry, and is in no other bucket.
C1_ForwardReverseExact ==
    /\ \A i, j \in 1..Len(activeHandles) :
          activeHandles[i].key = activeHandles[j].key => i = j
    /\ \A h \in Live(activeHandles) :
          /\ JoinedOf(activeHandles, h) \in DOMAIN reverseHandles
          /\ \A k \in DOMAIN reverseHandles :
                Occurrences(reverseHandles, k, h)
                    = IF k = JoinedOf(activeHandles, h) THEN 1 ELSE 0

\* C1's case: a bulk retarget has just moved two handles from one bucket to
\* another, next to insertions and evictions before it.
C1_Witness ==
    /\ last.op = "UpdateHandlesByPath"
    /\ last.ret = 2
    /\ Join(last.f, last.oldPath) /= Join(last.f, last.newPath)
    /\ Len(reverseHandles[Join(last.f, last.newPath)]) = 2

\* C2: the reverse index holds no orphan: every handle listed in a bucket is
\* in the forward map; the handle that ToHandle evicts, and the handle that
\* InvalidateHandle removes, has left its bucket when the call returns.
C2_NoOrphan ==
    /\ Listed(reverseHandles) \subseteq Live(activeHandles)
    /\ (last.op = "ToHandle" /\ last.evicted /= NilUUID)
          => /\ last.evicted \in Live(last.pre.c)
             /\ last.evicted \notin Live(activeHandles)
             /\ last.evicted \notin Listed(reverseHandles)
    /\ (last.op = "InvalidateHandle" /\ last.h \in Live(last.pre.c))
          => /\ last.h \notin Live(activeHandles)
             /\ last.h \notin Listed(reverseHandles)

\* C2's case: ToHandle has just evicted a handle that shared its bucket with
\* another handle, which stays listed.
C2_Witness ==
    /\ last.op = "ToHandle"
    /\ last.evicted /= NilUUID
    /\ Len(last.pre.r[JoinedOf(last.pre.c, last.evicted)]) = 2
    /\ JoinedOf(last.pre.c, last.evicted) \in DOMAIN reverseHandles

\* The paths of a RENAME that came to the backend: source directory + file
\* name, destination directory + file name, as lines 74-75 build them from the
\* two resolved handles.
RenameOld(c, req) == Append(LruPeek(c, req.fromH).p, req.fromName)

RenameNew(c, req) == Append(LruPeek(c, req.toH).p, req.toName)

\* The backend of the source directory handle, which joins both paths.
RenameFs(c, req) == LruPeek(c, req.fromH).f

\* C4: when a RENAME succeeds, every handle that was live with a stored path
\* equal (as a joined path) to the old full path of the renamed object still
\* resolves afterwards: not Stale, the same handle value, the new full path
\* (destination directory path + new file name), the backend it had.
C4_RenameKeepsHandle ==
    (last.op = "Rename" /\ last.status = "OK")
       => \A h \in StoredAt(last.pre.c, RenameFs(last.pre.c, last.req),
                         RenameOld(last.pre.c, last.req)) :
             ResolvesTo(activeHandles, h, LruPeek(last.pre.c, h).f,
                        RenameNew(last.pre.c, last.req))

\* C4's case: a RENAME of a/ to b/ succeeded while a handle other than the
\* two directory handles referenced the old path.
C4_Witness ==
    /\ last.op = "Rename"
    /\ last.status = "OK"
    /\ last.updated = 1
    /\ \E h \in StoredAt(last.pre.c, RenameFs(last.pre.c, last.req),
                         RenameOld(last.pre.c, last.req)) :
          /\ h /= last.req.fromH
          /\ h /= last.req.toH
          /\ LruPeek(last.pre.c, h).p /= LruPeek(activeHandles, h).p

\* C6: the forward map never holds more entries than the capacity given at
\* construction, which is what HandleLimit returns; UpdateHandle and
\* UpdateHandlesByPath leave the number of entries as it was.
C6_SizeWithinCapacity ==
    /\ cacheLimit = load.limit
    /\ LruLen(activeHandles) <= load.limit
    /\ last.op = "HandleLimit" => last.ret = load.limit
    /\ last.op \in {"UpdateHandle", "UpdateHandlesByPath"}
          => LruLen(activeHandles) = LruLen(last.pre.c)

\* C6's case: a full cache of capacity 2 after a bulk retarget that had
\* handles to migrate.
C6_Witness ==
    /\ last.op = "UpdateHandlesByPath"
    /\ last.ret >= 1
    /\ LruLen(activeHandles) = load.limit
    /\ load.limit = MaxLimit

\* The live handles ToHandle(f, path) may return without minting: stored path
\* joining to the same string as path, backend DeepEqual to f.
Cached(c, f, path) == {h \in StoredAt(c, f, path) : DeepEqual(LruPeek(c, h).f, f)}

Kept(h) ==
    /\ h \in Live(activeHandles)
    /\ LruPeek(activeHandles, h) = LruPeek(last.pre.c, h)

\* The handles of StoredAt(before the call, oldPath) that resolve to newPath
\* after it.
Migrated(f, oldPath, newPath) ==
    {h \in StoredAt(last.pre.c, f, oldPath) :
        LET res == FromHandle(activeHandles, h)
        IN res.err = "nil" /\ res.p = newPath}

\* C7 as stated: when UpdateHandlesByPath(fs, oldPath, newPath) returns k,
\* exactly k handles that were live with stored path oldPath resolve to
\* newPath afterwards, and the bucket of oldPath lists none of them.
C7_BulkRetargetCount ==
    last.op = "UpdateHandlesByPath"
       => /\ Cardinality(Migrated(last.f, last.oldPath, last.newPath)) = last.ret
          /\ \A h \in Migrated(last.f, last.oldPath, last.newPath) :
                h \notin Listed([k \in DOMAIN reverseHandles
                                    \cap {Join(last.f, last.oldPath)} |->
                                 reverseHandles[k]])

\* C7 amended: when UpdateHandlesByPath(fs, oldPath, newPath) returns k,
\* exactly k handles that were live with a stored path joining to the same
\* string as oldPath resolve to newPath afterwards; the bucket of oldPath
\* lists none of them unless newPath joins to the same string as oldPath,
\* and then it lists each of them once.
C7_BulkRetargetCountAmended ==
    last.op = "UpdateHandlesByPath"
       => /\ Cardinality(Migrated(last.f, last.oldPath, last.newPath)) = last.ret
          /\ \A h \in Migrated(last.f, last.oldPath, last.newPath) :
                IF Join(last.f, last.oldPath) = Join(last.f, last.newPath)
                THEN Occurrences(reverseHandles, Join(last.f, last.oldPath), h) = 1
                ELSE h \notin Listed([k \in DOMAIN reverseHandles
                                         \cap {Join(last.f, last.oldPath)} |->
                                      reverseHandles[k]])

\* C7's case: a bulk retarget moved a handle into a bucket that already held
\* another handle.
C7_Witness ==
    /\ last.op = "UpdateHandlesByPath"
    /\ last.ret = 1
    /\ Join(last.f, last.oldPath) /= Join(last.f, last.newPath)
    /\ Join(last.f, last.newPath) \in DOMAIN last.pre.r
    /\ Len(reverseHandles[Join(last.f, last.newPath)]) = 2

\* C8 as stated: after UpdateHandlesByPath(backend, oldPath, newPath) every
\* migrated handle resolves to the backend passed as the argument.
C8_BackendOverwritten ==
    last.op = "UpdateHandlesByPath"
       => \A h \in Migrated(last.f, last.oldPath, last.newPath) :
             FromHandle(activeHandles, h).f = last.f

\* C8 amended: after UpdateHandlesByPath(backend, oldPath, newPath) every
\* migrated handle resolves to the backend it resolved to before the call,
\* whichever backend is passed as the argument.
C8_BackendKept ==
    last.op = "UpdateHandlesByPath"
       => \A h \in Migrated(last.f, last.oldPath, last.newPath) :
             FromHandle(activeHandles, h).f = LruPeek(last.pre.c, h).f

\* C8's case: a bulk retarget called with one backend migrated a handle
\* minted with the other.
C8_Witness ==
    /\ last.op = "UpdateHandlesByPath"
    /\ last.ret >= 1
    /\ \E h \in Migrated(last.f, last.oldPath, last.newPath) :
          ~DeepEqual(LruPeek(last.pre.c, h).f, last.f)

\* C9 as stated: UpdateHandlesByPath, and so a successful RENAME, changes
\* only handles whose stored path exactly equals oldPath; every other live
\* handle, a nested one and the source and destination directory handles of
\* the RENAME among them, keeps its path, its backend and its liveness.
C9_OnlyExactPathChanges ==
    /\ last.op = "UpdateHandlesByPath"
          => \A h \in Live(last.pre.c) :
                LruPeek(last.pre.c, h).p /= last.oldPath => Kept(h)
    /\ (last.op = "Rename" /\ last.status = "OK")
          => /\ \A h \in Live(last.pre.c) :
                   LruPeek(last.pre.c, h).p /= RenameOld(last.pre.c, last.req)
                      => Kept(h)
             /\ Kept(last.req.fromH)
             /\ Kept(last.req.toH)

\* C9 amended: UpdateHandlesByPath, and so a successful RENAME, changes only
\* handles whose stored path joins to the same string as oldPath; every other
\* live handle, a nested one among them, keeps its path, its backend and its
\* liveness, and so do the source and the destination directory handle of the
\* RENAME unless their own path joins to the same string as oldPath.
C9_OnlyJoinedPathChanges ==
    /\ last.op = "UpdateHandlesByPath"
          => \A h \in Live(last.pre.c) \ StoredAt(last.pre.c, last.f, last.oldPath) :
                Kept(h)
    /\ (last.op = "Rename" /\ last.status = "OK")
          => LET old == StoredAt(last.pre.c, RenameFs(last.pre.c, last.req),
                         RenameOld(last.pre.c, last.req))
             IN /\ \A h \in Live(last.pre.c) \ old : Kept(h)
                /\ last.req.fromH \notin old => Kept(last.req.fromH)
                /\ last.req.toH \notin old => Kept(last.req.toH)

\* C9's case: directory a was retargeted to b while another handle
\* referenced a/b, which keeps its path.
C9_Witness ==
    /\ last.op = "UpdateHandlesByPath"
    /\ last.ret = 1
    /\ last.oldPath = <<"a">>
    /\ last.newPath = <<"b">>
    /\ \E h \in Live(last.pre.c) :
          /\ LruPeek(last.pre.c, h).p = <<"a", "b">>
          /\ Kept(h)

\* A ToHandle that minted while the forward map was full.
MintedWhenFull ==
    /\ last.op = "ToHandle"
    /\ last.minted
    /\ LruLen(last.pre.c) = cacheLimit

\* What a mint into a full cache does apart from the choice of the victim:
\* one handle leaves, it resolves as Stale and is in no bucket, every other
\* handle resolves as before; and after capacity + 1 mints for distinct paths
\* with no other call, the first handle is Stale and the others resolve.
EvictsOne ==
    /\ MintedWhenFull
          => /\ last.evicted \in Live(last.pre.c)
             /\ Live(activeHandles)
                   = (Live(last.pre.c) \ {last.evicted}) \cup {last.ret}
             /\ LruLen(activeHandles) = cacheLimit
             /\ FromHandle(activeHandles, last.evicted).err = "Stale"
             /\ last.evicted \notin Listed(reverseHandles)
             /\ \A h \in Live(last.pre.c) \ {last.evicted} :
                   ResolvesTo(activeHandles, h, LruPeek(last.pre.c, h).f,
                              LruPeek(last.pre.c, h).p)
    /\ (fill /\ nextId = cacheLimit + 2)
          => /\ FromHandle(activeHandles, 1).err = "Stale"
             /\ \A h \in 2..(cacheLimit + 1) : FromHandle(activeHandles, h).err = "nil"

\* C5 as stated: a mint into a full forward map evicts exactly one handle,
\* the least recently touched one, a touch being issuance, a ToHandle
\* reverse-search hit, a FromHandle hit or ancestor refresh, UpdateHandle or
\* UpdateHandlesByPath; it is then Stale and out of its bucket, and the others
\* resolve; with capacity 3, A, B, C, D leaves A Stale and B, C, D resolvable.
C5_EvictsLeastRecentlyTouched ==
    /\ EvictsOne
    /\ MintedWhenFull => last.evicted = Head(last.pre.touched)

\* C5 amended: the same, a touch being also the reverse search of ToHandle
\* reading a candidate of the bucket whose backend does not match.
C5_EvictsLeastRecentlyRead ==
    /\ EvictsOne
    /\ MintedWhenFull
          => last.evicted
                = Head(TouchEach(last.pre.examined,
                                 Examined(last.pre.c, last.pre.r, last.f, last.path)))

\* C5's case: a cache of capacity 3 was full, its first handle had been
\* touched again, and the mint evicted the second handle.
C5_Witness ==
    /\ MintedWhenFull
    /\ cacheLimit = MaxLimit + 1
    /\ last.evicted = 2
    /\ 1 \in Live(activeHandles)

\* The scenario of C5: capacity 3, four mints for distinct paths, no other
\* call.
C5_Scenario ==
    /\ fill
    /\ cacheLimit = MaxLimit + 1
    /\ nextId = cacheLimit + 2
    /\ last.op = "ToHandle"
    /\ last.evicted = 1

\* C3: with several workers running ToHandle, FromHandle, InvalidateHandle
\* and UpdateHandlesByPath at once, once all calls have returned no bucket of
\* the reverse index lists a handle that is absent from the forward map, and
\* every live handle is listed in the bucket of its stored path.
C3_ConsistentWhenQuiescent ==
    (\A w \in Workers : workers[w].pc = "idle")
       => /\ Listed(reverseHandles) \subseteq Live(activeHandles)
          /\ \A h \in Live(activeHandles) :
                /\ JoinedOf(activeHandles, h) \in DOMAIN reverseHandles
                /\ Occurrences(reverseHandles, JoinedOf(activeHandles, h), h) >= 1

\* What FromHandle does on a hit, and what any error result leaves alone:
\* the forward map with its recency order, and the reverse index.
FromHandleHitsAndKeeps ==
    /\ last.h \in Live(last.pre.c)
          => /\ last.err = "nil"
             /\ last.f = LruPeek(last.pre.c, last.h).f
             /\ last.p = LruPeek(last.pre.c, last.h).p
    /\ last.err /= "nil"
          => /\ activeHandles = last.pre.c
             /\ reverseHandles = last.pre.r

\* C11 as stated: for every handle value FromHandle returns the stored
\* (backend, path) when the handle is in the forward map and Stale otherwise;
\* a Stale result leaves the forward map, its recency order and the reverse
\* index unchanged.
C11_StaleOnEveryMiss ==
    last.op = "FromHandle"
       => /\ FromHandleHitsAndKeeps
          /\ last.h \notin Live(last.pre.c) => last.err = "Stale"

\* C11 amended: the same for every well-formed (16-byte) handle value; for
\* bytes that are not a UUID FromHandle returns the error of uuid.FromBytes,
\* which is not the Stale status, and changes nothing either.
C11_StaleOnWellFormedMiss ==
    last.op = "FromHandle"
       => /\ FromHandleHitsAndKeeps
          /\ (last.h \notin Live(last.pre.c) /\ last.h /= Malformed)
                => last.err = "Stale"
          /\ last.h = Malformed => last.err = "BadLength"

\* C11's case: a handle that was issued and is gone resolves as Stale while
\* other handles are cached.
C11_Witness ==
    /\ last.op = "FromHandle"
    /\ last.err = "Stale"
    /\ last.h >= 1
    /\ LruLen(activeHandles) = MaxLimit

\* A RENAME whose status is one of those of steps 1 to 5: Stale, NotSupported,
\* ReadOnlyFileSystem, NameTooLong, NotDir, or NoEnt while a pre-stat found
\* its directory missing (NoEnt after two good pre-stats is fs.Rename's).
EndedEarly ==
    \/ last.status \in {"Stale", "NotSupp", "ROFS", "NameTooLong", "NotDir"}
    \/ /\ last.status = "NoEnt"
       /\ "notexist" \in {last.env.statFrom, last.env.statTo}

\* A RENAME one of whose checks of steps 1 to 5 fails, read from the request,
\* the cache before it and the backend's answers.
FailsEarly ==
    \/ last.req.fromH \notin Live(last.pre.c)
    \/ last.req.toH \notin Live(last.pre.c)
    \/ LruPeek(last.pre.c, last.req.fromH).f /= LruPeek(last.pre.c, last.req.toH).f
    \/ ~last.env.writable
    \/ Len(last.req.fromName) > PathNameMax
    \/ Len(last.req.toName) > PathNameMax
    \/ last.env.statFrom /= "dir"
    \/ last.env.statTo /= "dir"

\* C12: whenever a RENAME ends with a status of steps 1 to 5 (Stale,
\* NotSupported, ReadOnlyFileSystem, NameTooLong, NoEnt or NotDir from a
\* directory pre-stat), fs.Rename was never called during the request; and
\* whenever one of those checks fails, fs.Rename is not called whatever it
\* would have answered.
C12_EarlyFailureNoBackendRename ==
    last.op = "Rename"
       => /\ EndedEarly => last.renameCalls = <<>>
          /\ FailsEarly => last.renameCalls = <<>>

\* C12's case: the destination directory was missing at the pre-stat of a
\* request that was fine otherwise, on a backend whose rename would have
\* succeeded.
C12_Witness ==
    /\ last.op = "Rename"
    /\ last.status = "NoEnt"
    /\ last.env.statFrom = "dir"
    /\ last.env.statTo = "notexist"
    /\ last.env.rename = "nil"
    /\ last.env.writable
    /\ last.req.fromH /= last.req.toH
    /\ last.renameCalls = <<>>

\* C13: once the fs.Rename call of a RENAME has returned success, the request
\* makes no further fs.Rename call (no rollback), it ends with success or
\* ServerFault and nothing else, and a failing post-operation stat of the
\* source or the destination directory does not make it an error: with every
\* write succeeding the response is success, the block of a directory whose
\* post-stat failed carrying no post-operation attributes.
C13_CommittedRenameStands ==
    (last.op = "Rename" /\ last.renameCalls /= <<>> /\ last.env.rename = "nil")
       => /\ Len(last.renameCalls) = 1
          /\ last.status \in {"OK", "ServerFault"}
          /\ last.status = "OK" <=> last.env.write = "none"
          /\ last.status = "OK"
                => /\ Len(last.resp) = 3
                   /\ last.resp[1] = "OK"
                   /\ last.resp[2] = "nopost" <=> ~last.env.postFrom
                   /\ last.resp[3] = "nopost" <=> ~last.env.postTo
          /\ last.status = "ServerFault" => last.resp = <<>>

\* C13's case: the rename was done, the post-stat of the source directory
\* failed and that of the destination directory did not; the request
\* succeeded.
C13_Witness ==
    /\ last.op = "Rename"
    /\ Len(last.renameCalls) = 1
    /\ ~last.env.postFrom
    /\ last.env.postTo
    /\ last.status = "OK"
    /\ last.resp = <<"OK", "nopost", "post">>

\* C18: the handle cache is retargeted only after fs.Rename has returned
\* success: whenever a RENAME ends with an error status of steps 1 to 6 (a
\* failure of fs.Rename mapped to NoEnt, Access or IO among them), every
\* handle that was live before the request still resolves to the backend and
\* path it had, no handle was invalidated, none was minted, and the reverse
\* index is as it was.
C18_RetargetOnlyAfterRename ==
    (last.op = "Rename" /\ last.status \notin {"OK", "ServerFault"})
       => /\ last.updated = -1
          /\ Live(activeHandles) = Live(last.pre.c)
          /\ \A h \in Live(last.pre.c) :
                ResolvesTo(activeHandles, h, LruPeek(last.pre.c, h).f,
                           LruPeek(last.pre.c, h).p)
          /\ reverseHandles = last.pre.r
          /\ nextId = last.pre.next

\* C18's case: fs.Rename was called and refused with a permission error
\* while a handle referenced the path to rename.
C18_Witness ==
    /\ last.op = "Rename"
    /\ last.status = "Access"
    /\ Len(last.renameCalls) = 1
    /\ StoredAt(last.pre.c, RenameFs(last.pre.c, last.req),
                RenameOld(last.pre.c, last.req)) /= {}
    /\ RenameOld(last.pre.c, last.req) /= RenameNew(last.pre.c, last.req)

\* The checks of a RENAME in their fixed order, each with whether it fails
\* for the last request and the status it gives; a stat that fails gives
\* NoEnt when the directory is missing and IO otherwise.
RenameCheckList ==
    LET req == last.req
        env == last.env
        c == last.pre.c
        both == req.fromH \in Live(c) /\ req.toH \in Live(c)
        stat(st) == <<[fails |-> st = "notexist", status |-> "NoEnt"],
                      [fails |-> st = "error", status |-> "IO"],
                      [fails |-> st = "file", status |-> "NotDir"]>>
    IN <<[fails |-> req.fromH \notin Live(c), status |-> "Stale"],
         [fails |-> req.toH \notin Live(c), status |-> "Stale"],
         [fails |-> both /\ LruPeek(c, req.fromH).f /= LruPeek(c, req.toH).f,
          status |-> "NotSupp"],
         [fails |-> ~env.writable, status |-> "ROFS"],
         [fails |-> Len(req.fromName) > PathNameMax
                       \/ Len(req.toName) > PathNameMax,
          status |-> "NameTooLong"]>>
       \o stat(env.statFrom)
       \o stat(env.statTo)
       \o <<[fails |-> env.rename = "notexist", status |-> "NoEnt"],
            [fails |-> env.rename = "permission", status |-> "Access"],
            [fails |-> env.rename = "error", status |-> "IO"]>>

Failing(checks) == {i \in 1..Len(checks) : checks[i].fails}

FirstFailing(checks) ==
    checks[CHOOSE i \in Failing(checks) : \A j \in Failing(checks) : i <= j]

\* C19: a RENAME whose two arguments decode returns the status of the first
\* failing check in the fixed order: source directory handle Stale,
\* destination directory handle Stale, NotSupported for different backends,
\* ReadOnlyFileSystem, NameTooLong, the source directory's pre-stat, the
\* destination directory's pre-stat, the error of fs.Rename; with no failing
\* check it ends with success or ServerFault.  So a request both
\* cross-backend and on a read-only backend returns NotSupported, and one
\* with an over-long file name and a missing source directory NameTooLong.
C19_FirstFailingCheckWins ==
    (last.op = "Rename" /\ last.req.body = "ok")
       => /\ IF Failing(RenameCheckList) /= {}
             THEN last.status = FirstFailing(RenameCheckList).status
             ELSE last.status \in {"OK", "ServerFault"}
          /\ (RenameCheckList[3].fails /\ ~last.env.writable)
                => last.status = "NotSupp"
          /\ (/\ last.req.fromH \in Live(last.pre.c)
              /\ last.req.toH \in Live(last.pre.c)
              /\ ~RenameCheckList[3].fails
              /\ last.env.writable
              /\ Len(last.req.fromName) > PathNameMax
              /\ last.env.statFrom = "notexist")
                => last.status = "NameTooLong"

\* C19's case: an over-long source file name, both directories missing and
\* a backend whose rename would fail too: NameTooLong.
C19_Witness ==
    /\ last.op = "Rename"
    /\ last.req.body = "ok"
    /\ Len(last.req.fromName) > PathNameMax
    /\ last.env.statFrom = "notexist"
    /\ last.env.statTo = "notexist"
    /\ last.env.rename = "permission"
    /\ Cardinality(Failing(RenameCheckList)) = 4
    /\ last.status = "NameTooLong"

\* C15: InvalidateHandle removes a live handle from the forward map and from
\* its reverse-index bucket, so that it then resolves as Stale, and leaves
\* every other handle as it was; called on a handle that is not live, or a
\* second time on the same handle, it changes nothing in the forward map or
\* the reverse index; it reports no error in any case.
C15_InvalidateRemovesOnce ==
    last.op = "InvalidateHandle"
       => LET second == InvalidateHandle(activeHandles, reverseHandles, last.h)
          IN /\ last.err = "nil"
             /\ last.h \in Live(last.pre.c)
                   => /\ Live(activeHandles) = Live(last.pre.c) \ {last.h}
                      /\ last.h \notin Listed(reverseHandles)
                      /\ FromHandle(activeHandles, last.h).err = "Stale"
                      /\ \A h \in Live(activeHandles) :
                            /\ Kept(h)
                            /\ Occurrences(reverseHandles,
                                           JoinedOf(activeHandles, h), h) = 1
             /\ last.h \notin Live(last.pre.c)
                   => /\ activeHandles = last.pre.c
                      /\ reverseHandles = last.pre.r
             /\ second.c = activeHandles
             /\ second.r = reverseHandles

\* C15's case: a live handle that shared its bucket with a handle of the
\* other backend has been invalidated; the other one stays.
C15_Witness ==
    /\ last.op = "InvalidateHandle"
    /\ last.h \in Live(last.pre.c)
    /\ Len(last.pre.r[JoinedOf(last.pre.c, last.h)]) = 2
    /\ LruLen(activeHandles) = 1
    /\ FromHandle(activeHandles, last.h).err = "Stale"

\* What UpdateHandle(backend, handle, newPath) does apart from the bucket of
\* the old path: a live handle resolves to (backend, newPath) afterwards and
\* is listed once in the bucket of newPath, every other handle keeps its
\* entry and its bucket membership, no handle comes or goes; a well-formed
\* handle that is not live gets Stale, and forward map and reverse index are
\* unchanged.
UpdateHandleRetargetsOne ==
    /\ last.h \in Live(last.pre.c)
          => /\ last.err = "nil"
             /\ ResolvesTo(activeHandles, last.h, last.f, last.newPath)
             /\ Join(last.f, last.newPath) \in DOMAIN reverseHandles
             /\ Occurrences(reverseHandles, Join(last.f, last.newPath), last.h) = 1
             /\ Live(activeHandles) = Live(last.pre.c)
             /\ nextId = last.pre.next
             /\ \A h \in Live(last.pre.c) \ {last.h} :
                   /\ Kept(h)
                   /\ \A k \in DOMAIN reverseHandles \cup DOMAIN last.pre.r :
                         Occurrences([x \in {k} |-> Bucket(reverseHandles, k)], k, h)
                            = Occurrences([x \in {k} |-> Bucket(last.pre.r, k)], k, h)
    /\ (last.h \notin Live(last.pre.c) /\ last.h /= Malformed)
          => /\ last.err = "Stale"
             /\ activeHandles = last.pre.c
             /\ reverseHandles = last.pre.r

\* Whether the handle of the last call is listed in the bucket its old path
\* had before the call.
InOldBucket ==
    LET k == JoinedOf(last.pre.c, last.h)
    IN k \in DOMAIN reverseHandles /\ Occurrences(reverseHandles, k, last.h) > 0

PrefixAt(c, path) == {i \in 1..Len(c) : hasPrefix(path, c[i].val.p)}

\* After a FromHandle hit: the looked-up handle is cached, and it and every
\* cached entry whose path is a prefix of its path are more recently used
\* than every cached entry whose path is no such prefix.
PrefixesWarm ==
    /\ last.h \in Live(activeHandles)
    /\ LruIndex(activeHandles, last.h) \in PrefixAt(activeHandles, last.p)
    /\ \A i \in PrefixAt(activeHandles, last.p) :
          \A j \in (1..Len(activeHandles)) \ PrefixAt(activeHandles, last.p) :
             j < i

\* Whether the entry of handle h has a path that is no prefix of the path
\* the hit resolved.
NonPrefix(h) == ~hasPrefix(last.p, LruPeek(activeHandles, h).p)

\* C17 as stated: after a FromHandle hit on h, h and every cached prefix
\* entry are more recently used than every other cached entry; so if a
\* non-prefix entry is cached, a ToHandle that comes next and evicts removes
\* a non-prefix entry, neither h nor any of its ancestors.
C17_NextEvictionSparesPrefixes ==
    (last.op = "FromHandle" /\ last.err = "nil")
       => /\ PrefixesWarm
          /\ \A f \in load.fs, path \in load.paths :
                LET t == ToHandle(activeHandles, reverseHandles, cacheLimit,
                                  nextId, f, path)
                IN (/\ t.evicted /= NilUUID
                    /\ \E x \in Live(activeHandles) : NonPrefix(x))
                      => NonPrefix(t.evicted)

\* C17 amended: the same order after the hit; and if a non-prefix entry is
\* cached that the reverse search of the ToHandle coming next does not read
\* (it is not in the bucket of the path passed to ToHandle), that ToHandle,
\* when it evicts, removes a non-prefix entry.
C17_NextEvictionSparesPrefixesUnlessRead ==
    (last.op = "FromHandle" /\ last.err = "nil")
       => /\ PrefixesWarm
          /\ \A f \in load.fs, path \in load.paths :
                LET t == ToHandle(activeHandles, reverseHandles, cacheLimit,
                                  nextId, f, path)
                    read == {x \in Live(activeHandles) :
                                JoinedOf(activeHandles, x) = Join(f, path)}
                IN (/\ t.evicted /= NilUUID
                    /\ \E x \in Live(activeHandles) \ read : NonPrefix(x))
                      => NonPrefix(t.evicted)

\* C17's case: the hit was on the least recently used of three handles, one
\* of the others being its ancestor and one not; a ToHandle for a fourth path
\* would now evict the one that is not.
C17_Witness ==
    /\ last.op = "FromHandle"
    /\ last.err = "nil"
    /\ LruLen(activeHandles) = MaxLimit + 1
    /\ last.pre.c[1].key = last.h
    /\ \E i \in PrefixAt(activeHandles, last.p) : activeHandles[i].key /= last.h
    /\ \E x \in Live(activeHandles) : NonPrefix(x)
    /\ \E path \in load.paths :
          LET t == ToHandle(activeHandles, reverseHandles, cacheLimit, nextId,
                            "fs1", path)
          IN t.evicted /= NilUUID /\ NonPrefix(t.evicted)

\* Whether two listings hold the same entry names, in whatever order.
SameNames(l, m) ==
    /\ Len(l) = Len(m)
    /\ {l[i] : i \in 1..Len(l)} = {m[i] : i \in 1..Len(m)}

\* C14: VerifierFor returns the same verifier for identical (path, entries):
\* the id just returned is the key of every resident entry that was stored
\* for the same path and listing; and, the digest being collision-free over
\* the bytes it is fed, it differs from the key of every resident entry
\* stored for the same path and the same names in another order.
C14_VerifierOrderSensitive ==
    last.op = "VerifierFor"
       => \A i \in 1..Len(last.pre) :
             LET e == last.pre[i]
             IN /\ (e.val.path = last.path /\ e.val.contents = last.contents)
                      => e.key = last.ret
                /\ (/\ e.val.path = last.path
                    /\ SameNames(e.val.contents, last.contents)
                    /\ e.val.contents /= last.contents)
                      => e.key /= last.ret

\* C20: DataForVerifier(path, id) returns a snapshot only when the entry
\* resident under id was stored by VerifierFor for that same path; with an
\* id issued for another directory it returns not-found.
C20_VerifierBoundToPath ==
    last.op = "DataForVerifier"
       => /\ last.found
                => /\ LruContains(last.pre, last.id)
                   /\ LruPeek(last.pre, last.id).path = last.path
                   /\ last.ret = LruPeek(last.pre, last.id).contents
          /\ (LruContains(last.pre, last.id)
                /\ LruPeek(last.pre, last.id).path /= last.path)
                => ~last.found

====
